---- MODULE Spec2Model ----
(***************************************************************************)
(* Names/download.ipynb: the two data-acquisition pipelines of the         *)
(* notebook.                                                               *)
(*   - the name-counts pipeline (cells fb91f2c8, e683032b, beaf2ef5):      *)
(*     download names.zip, extract it to data-us, read every *txt file,    *)
(*     tag it with the year taken from its name, concatenate, write        *)
(*     names.csv.gz, remove names.zip and data-us;                         *)
(*   - the life-table pipeline (cells 3c09f974, 3cb9c7f6): for each year   *)
(*     of range(1900, 2100, 10) scrape the second table of the page,       *)
(*     parse it, concatenate and write lifetables.csv.                     *)
(* The notebook is run top to bottom; a cell that raises ends the run.     *)
(* Text that the code inspects character by character (file names, table   *)
(* cells, header cells) is a sequence of one-character strings.            *)
(***************************************************************************)
EXTENDS Integers, Sequences, FiniteSets, Bags, TLC

VARIABLES
    pc,          \* name-counts pipeline: the statement to run next
    failedAt,    \* the statement that raised, "none" while nothing raised
    executed,    \* the statements completed so far, in order
    archive,     \* the remote names.zip: file name -> lines of the file
    fs,          \* the working directory: path -> content, for the paths
                 \* that exist
    seen,        \* the entries Path('data-us').iterdir() has yielded
    babynames,   \* the list of per-file frames; after pd.concat, one frame
    lpc,         \* life-table pipeline: the step to run next
    site,        \* the SSA site: year -> the tables of the year's page, for
                 \* the years whose page is not the usual one
    yearIdx,     \* the place of get_lifetables' comprehension in Years
    requested,   \* the years requests.get was called for, in order
    lifetable,   \* the grid scrape_lifetable returned for the current year
    frames,      \* the frames get_lifetable returned so far
    lifetables   \* the combined frame

namesVars == <<pc, failedAt, executed, archive, fs, seen, babynames>>

lifeVars == <<lpc, site, yearIdx, requested, lifetable, frames, lifetables>>

\* what the life-table pipeline leaves alone
lifeIdleVars == <<pc, failedAt, executed, archive, seen, babynames>>

vars == <<namesVars, lifeVars>>

\* the paths the notebook touches
NamesZip == "names.zip"
DataUs == "data-us"
NamesCsvGz == "names.csv.gz"

Exists(path) == path \in DOMAIN fs

\* the directory with path created or overwritten
Put(dir, path, content) ==
    [q \in DOMAIN dir \cup {path} |-> IF q = path THEN content ELSE dir[q]]

\* the directory with path removed
Remove(dir, path) == [q \in DOMAIN dir \ {path} |-> dir[q]]

Range(s) == {s[i] : i \in DOMAIN s}

-----------------------------------------------------------------------------
(* Text helpers                                                            *)

Digits == {"0", "1", "2", "3", "4", "5", "6", "7", "8", "9"}

\* the non-breaking space U+00A0, one character
NbspChar == "nbsp"

\* the characters str.strip(), int(), float() and the pattern \s take for
\* white space
Whitespace == {" ", "\t", "\n", NbspChar}

DigitVal(c) ==
    CASE c = "0" -> 0 [] c = "1" -> 1 [] c = "2" -> 2 [] c = "3" -> 3
      [] c = "4" -> 4 [] c = "5" -> 5 [] c = "6" -> 6 [] c = "7" -> 7
      [] c = "8" -> 8 [] c = "9" -> 9

RECURSIVE DecimalValue(_)
\* the number a sequence of decimal digits denotes
DecimalValue(s) ==
    IF s = <<>> THEN 0
    ELSE 10 * DecimalValue(SubSeq(s, 1, Len(s) - 1)) + DigitVal(s[Len(s)])

RECURSIVE LStrip(_)
LStrip(s) == IF s # <<>> /\ s[1] \in Whitespace THEN LStrip(Tail(s)) ELSE s

RECURSIVE RStrip(_)
RStrip(s) ==
    IF s # <<>> /\ s[Len(s)] \in Whitespace
    THEN RStrip(SubSeq(s, 1, Len(s) - 1)) ELSE s

\* str.strip()
Strip(s) == RStrip(LStrip(s))

\* Python's s[lo:hi] for 0 <= lo <= hi (a slice never raises; it is cut
\* at the end of the string)
Slice(s, lo, hi) ==
    SubSeq(s, lo + 1, IF hi < Len(s) THEN hi ELSE Len(s))

\* s.endswith(suffix)
EndsWith(s, suffix) ==
    /\ Len(s) >= Len(suffix)
    /\ SubSeq(s, Len(s) - Len(suffix) + 1, Len(s)) = suffix

-----------------------------------------------------------------------------
(* int(text), base 10: surrounding whitespace is stripped, one sign is     *)
(* allowed, and single underscores may separate digits.                    *)

Unsigned(s) ==
    LET t == Strip(s) IN
    IF t # <<>> /\ t[1] \in {"+", "-"} THEN Tail(t) ELSE t

IsNegative(s) ==
    LET t == Strip(s) IN t # <<>> /\ t[1] = "-"

\* digits, with single underscores only between two digits
DigitGroups(u) ==
    /\ u # <<>>
    /\ \A i \in DOMAIN u : u[i] \in Digits \cup {"_"}
    /\ u[1] \in Digits
    /\ u[Len(u)] \in Digits
    /\ \A i \in 1..(Len(u) - 1) : ~(u[i] = "_" /\ u[i + 1] = "_")

IsDigit(c) == c \in Digits

\* int(s) does not raise ValueError
PyIntOk(s) == DigitGroups(Unsigned(s))

\* int(s), when it does not raise
PyIntVal(s) ==
    LET v == DecimalValue(SelectSeq(Unsigned(s), IsDigit))
    IN  IF IsNegative(s) THEN 0 - v ELSE v

-----------------------------------------------------------------------------
(* Inputs of the name-counts pipeline                                      *)

MaxFiles == 2

\* member names of the archive
Yob2000     == <<"y", "o", "b", "2", "0", "0", "0", ".", "t", "x", "t">>
Yob2001     == <<"y", "o", "b", "2", "0", "0", "1", ".", "t", "x", "t">>
ReadMePdf   == <<"R", "e", "a", "d", "M", "e", ".", "p", "d", "f">>
YobPlus     == <<"y", "o", "b", "+", "2", "0", "0", ".", "t", "x", "t">>
YobSpace    == <<"y", "o", "b", " ", "2", "0", "0", ".", "t", "x", "t">>
YobUnder    == <<"y", "o", "b", "2", "_", "0", "0", ".", "t", "x", "t">>
YobAlpha    == <<"y", "o", "b", "a", "b", "c", "d", ".", "t", "x", "t">>
ShortTxt    == <<"a", "b", "t", "x", "t">>

FileNames ==
    {Yob2000, Yob2001, ReadMePdf, YobPlus, YobSpace, YobUnder, YobAlpha,
     ShortTxt}

\* lines of a yearly file, already split at the commas; births is the
\* integer the third field denotes
Mary == <<"Mary", "F", 100>>
John == <<"John", "M", 50>>
NaRow == <<"NA", "F", 7>>
FourFields == <<"Mary", "F", 100, 1>>

\* file contents; the first line of every file has three fields
Contents ==
    {<<Mary>>, <<John, Mary>>, <<Mary, Mary>>, <<NaRow>>, <<Mary, FourFields>>}

Archives ==
    UNION {[S -> Contents] :
           S \in {T \in SUBSET FileNames : Cardinality(T) <= MaxFiles}}

\* what names.csv.gz may hold before the run
OldCsv == <<[name |-> "Old", sex |-> "F", births |-> 1, year |-> 1880]>>

-----------------------------------------------------------------------------
(* pd.read_csv(file, names=['name', 'sex', 'births'])                      *)

\* the missing value of a frame
NaN == "<NaN>"

\* the strings read_csv takes for a missing value (na_filter is on by
\* default)
NaValues ==
    {"", "#N/A", "#N/A N/A", "#NA", "-1.#IND", "-1.#QNAN", "-NaN", "-nan",
     "1.#IND", "1.#QNAN", "<NA>", "N/A", "NA", "NULL", "NaN", "n/a", "nan",
     "null"}

NaFilter(field) == IF field \in NaValues THEN NaN ELSE field

\* the number of names given
ExpectedFields == 3

\* the tokenizer raises on a line with more fields than expected
ReadCsvFails(lines) ==
    \E i \in DOMAIN lines : Len(lines[i]) > ExpectedFields

\* the frame of a file, when read_csv does not raise
ReadCsv(lines) ==
    [i \in DOMAIN lines |->
        [name   |-> NaFilter(lines[i][1]),
         sex    |-> NaFilter(lines[i][2]),
         births |-> lines[i][3]]]

\* file.name[3:7]
YearField(name) == Slice(name, 3, 7)

\* file.name.endswith('txt')
IsTxt(name) == EndsWith(name, <<"t", "x", "t">>)

\* df['year'] = year
AssignYear(df, year) ==
    [i \in DOMAIN df |->
        [name |-> df[i].name, sex |-> df[i].sex, births |-> df[i].births,
         year |-> year]]

RECURSIVE Distinct(_)
\* the sequence without the later copies of its elements
Distinct(rows) ==
    IF rows = <<>> THEN <<>>
    ELSE LET firsts == Distinct(SubSeq(rows, 1, Len(rows) - 1))
         IN  IF rows[Len(rows)] \in Range(firsts) THEN firsts
             ELSE Append(firsts, rows[Len(rows)])

RECURSIVE ConcatDistinct(_)
\* a concat that keeps one copy of a row that occurs more than once
ConcatDistinct(objs) ==
    IF objs = <<>> THEN <<>>
    ELSE Distinct(objs[1] \o ConcatDistinct(Tail(objs)))

RECURSIVE Concat(_)
\* pd.concat(frames): the rows of the frames, in the order of the list
Concat(objs) ==
    IF objs = <<>> THEN <<>>
    ELSE objs[1] \o Concat(Tail(objs))

\* to_csv writes a missing value as the empty string
NaRep(v) == IF v = NaN THEN "" ELSE v

\* the rows df.to_csv(..., index=False) writes under the header line
ToCsv(df) ==
    [i \in DOMAIN df |->
        [name |-> NaRep(df[i].name), sex |-> NaRep(df[i].sex),
         births |-> df[i].births, year |-> df[i].year]]

-----------------------------------------------------------------------------
(* The name-counts pipeline                                                *)

\* the statements with the cleanup cell run before the frames are written
StatementsCleanupFirst ==
    <<"download", "extract", "init", "read", "concat", "rm_zip", "rmtree",
      "write", "done">>

\* the statements of cells fb91f2c8, e683032b and beaf2ef5, in order
Statements ==
    <<"download", "extract", "init", "read", "concat", "write", "rm_zip",
      "rmtree", "done">>

\* the statement after s
After(s) ==
    LET i == CHOOSE k \in DOMAIN Statements : Statements[k] = s
    IN  Statements[i + 1]

\* an exception ends the run: no later statement or cell is run
Raise ==
    /\ pc' = "aborted"
    /\ failedAt' = pc

Complete ==
    /\ pc' = After(pc)
    /\ executed' = Append(executed, pc)
    /\ failedAt' = failedAt

NamesInit ==
    /\ pc = "download"
    /\ failedAt = "none"
    /\ executed = <<>>
    /\ archive \in Archives
    /\ fs \in {<<>>, Put(<<>>, NamesCsvGz, OldCsv)}
    /\ seen = {}
    /\ babynames = <<>>

\* wget.download(...)
Download ==
    /\ pc = "download"
    /\ fs' = Put(fs, NamesZip, archive)
    /\ Complete
    /\ UNCHANGED <<archive, seen, babynames>>
    /\ UNCHANGED lifeVars

\* the download raises (the network fails): nothing is saved
DownloadFails ==
    /\ pc = "download"
    /\ Raise
    /\ UNCHANGED <<executed, archive, fs, seen, babynames>>
    /\ UNCHANGED lifeVars

\* ZipFile('names.zip').extractall('data-us')
ExtractAll ==
    /\ pc = "extract"
    /\ fs' = Put(fs, DataUs,
                  {[name |-> n, lines |-> fs[NamesZip][n]] :
                       n \in DOMAIN fs[NamesZip]})
    /\ Complete
    /\ UNCHANGED <<archive, seen, babynames>>
    /\ UNCHANGED lifeVars

\* babynames = []
InitList ==
    /\ pc = "init"
    /\ babynames' = <<>>
    /\ seen' = {}
    /\ Complete
    /\ UNCHANGED <<archive, fs>>
    /\ UNCHANGED lifeVars

\* one turn of the loop on a file that does not end in 'txt'
SkipFile ==
    \E file \in (IF pc = "read" THEN fs[DataUs] ELSE {}) :
        /\ pc = "read"
        /\ file \in fs[DataUs] \ seen
        /\ ~IsTxt(file.name)
        /\ seen' = seen \cup {file}
        /\ UNCHANGED <<pc, failedAt, executed, archive, fs, babynames>>
        /\ UNCHANGED lifeVars

\* a loop that writes the frames read so far when pd.read_csv raises
ReadCsvRaisesPartial ==
    \E file \in (IF pc = "read" THEN fs[DataUs] ELSE {}) :
        /\ pc = "read"
        /\ file \in fs[DataUs] \ seen
        /\ IsTxt(file.name)
        /\ ReadCsvFails(file.lines)
        /\ seen' = seen \cup {file}
        /\ fs' = Put(fs, NamesCsvGz, ToCsv(Concat(babynames)))
        /\ Raise
        /\ UNCHANGED <<executed, archive, babynames>>
        /\ UNCHANGED lifeVars

\* one turn of the loop in which pd.read_csv raises
ReadCsvRaises ==
    \E file \in (IF pc = "read" THEN fs[DataUs] ELSE {}) :
        /\ pc = "read"
        /\ file \in fs[DataUs] \ seen
        /\ IsTxt(file.name)
        /\ ReadCsvFails(file.lines)
        /\ seen' = seen \cup {file}
        /\ Raise
        /\ UNCHANGED <<executed, archive, fs, babynames>>
        /\ UNCHANGED lifeVars

\* one turn of the loop in which int(file.name[3:7]) raises
IntRaises ==
    \E file \in (IF pc = "read" THEN fs[DataUs] ELSE {}) :
        /\ pc = "read"
        /\ file \in fs[DataUs] \ seen
        /\ IsTxt(file.name)
        /\ ~ReadCsvFails(file.lines)
        /\ ~PyIntOk(YearField(file.name))
        /\ seen' = seen \cup {file}
        /\ Raise
        /\ UNCHANGED <<executed, archive, fs, babynames>>
        /\ UNCHANGED lifeVars

\* one turn of the loop that appends the file's frame
ReadFile ==
    \E file \in (IF pc = "read" THEN fs[DataUs] ELSE {}) :
        /\ pc = "read"
        /\ file \in fs[DataUs] \ seen
        /\ IsTxt(file.name)
        /\ ~ReadCsvFails(file.lines)
        /\ PyIntOk(YearField(file.name))
        /\ seen' = seen \cup {file}
        /\ babynames' =
               Append(babynames,
                      AssignYear(ReadCsv(file.lines),
                                 PyIntVal(YearField(file.name))))
        /\ UNCHANGED <<pc, failedAt, executed, archive, fs>>
        /\ UNCHANGED lifeVars

\* iterdir() is exhausted
LoopEnds ==
    /\ pc = "read"
    /\ seen = fs[DataUs]
    /\ Complete
    /\ UNCHANGED <<archive, fs, seen, babynames>>
    /\ UNCHANGED lifeVars

\* babynames = pd.concat(babynames)
ConcatFrames ==
    /\ pc = "concat"
    /\ babynames # <<>>
    /\ babynames' = Concat(babynames)
    /\ Complete
    /\ UNCHANGED <<archive, fs, seen>>
    /\ UNCHANGED lifeVars

\* pd.concat([]) raises "No objects to concatenate"
ConcatRaises ==
    /\ pc = "concat"
    /\ babynames = <<>>
    /\ Raise
    /\ UNCHANGED <<executed, archive, fs, seen, babynames>>
    /\ UNCHANGED lifeVars

\* babynames.to_csv('names.csv.gz', index=False, compression='gzip')
WriteCsv ==
    /\ pc = "write"
    /\ fs' = Put(fs, NamesCsvGz, ToCsv(babynames))
    /\ Complete
    /\ UNCHANGED <<archive, seen, babynames>>
    /\ UNCHANGED lifeVars

\* to_csv raises (the disk is full, the file cannot be opened): the file is
\* left as it was, or cut short
WriteRaises ==
    /\ pc = "write"
    /\ fs' \in {fs, Put(fs, NamesCsvGz, <<>>)}
    /\ Raise
    /\ UNCHANGED <<executed, archive, seen, babynames>>
    /\ UNCHANGED lifeVars

\* os.remove('names.zip')
RemoveZip ==
    /\ pc = "rm_zip"
    /\ fs' = Remove(fs, NamesZip)
    /\ Complete
    /\ UNCHANGED <<archive, seen, babynames>>
    /\ UNCHANGED lifeVars

\* a cleanup that leaves the directory in place
RemoveTreeSkipped ==
    /\ pc = "rmtree"
    /\ Complete
    /\ UNCHANGED <<archive, fs, seen, babynames>>
    /\ UNCHANGED lifeVars

\* shutil.rmtree('data-us')
RemoveTree ==
    /\ pc = "rmtree"
    /\ fs' = Remove(fs, DataUs)
    /\ Complete
    /\ UNCHANGED <<archive, seen, babynames>>
    /\ UNCHANGED lifeVars

-----------------------------------------------------------------------------
(* float(text): surrounding whitespace is stripped, one sign is allowed;   *)
(* the body is nan, inf, or decimal digits with at most one point (single  *)
(* underscores may separate digits). Texts with an exponent are not among  *)
(* the modelled cells.                                                     *)

NanTexts == {<<"n", "a", "n">>, <<"N", "a", "N">>, <<"N", "A", "N">>}

InfTexts == {<<"i", "n", "f">>, <<"I", "n", "f">>, <<"I", "N", "F">>}

\* the places of the decimal point
Points(u) == {i \in DOMAIN u : u[i] = "."}

IntPart(u) ==
    IF Points(u) = {} THEN u
    ELSE SubSeq(u, 1, (CHOOSE i \in Points(u) : TRUE) - 1)

FracPart(u) ==
    IF Points(u) = {} THEN <<>>
    ELSE SubSeq(u, (CHOOSE i \in Points(u) : TRUE) + 1, Len(u))

DecimalOk(u) ==
    /\ Cardinality(Points(u)) <= 1
    /\ IntPart(u) = <<>> \/ DigitGroups(IntPart(u))
    /\ FracPart(u) = <<>> \/ DigitGroups(FracPart(u))
    /\ IntPart(u) # <<>> \/ FracPart(u) # <<>>

\* float(s) does not raise ValueError
PyFloatOk(s) ==
    LET u == Unsigned(s) IN u \in NanTexts \/ u \in InfTexts \/ DecimalOk(u)

RECURSIVE DropTrailingZeros(_)
DropTrailingZeros(d) ==
    IF d # <<>> /\ d[Len(d)] = "0"
    THEN DropTrailingZeros(SubSeq(d, 1, Len(d) - 1)) ELSE d

\* the values of a life-table frame
Missing == [kind |-> "nan"]

Text(t) == [kind |-> "str", s |-> t]

Whole(n) == [kind |-> "int", n |-> n]

\* float(s), when it does not raise: nan, an infinity, or the number with
\* integer part int and fraction digits frac
PyFloat(s) ==
    LET u == Unsigned(s) IN
    IF u \in NanTexts THEN Missing
    ELSE IF u \in InfTexts THEN [kind |-> "inf", neg |-> IsNegative(s)]
    ELSE [kind |-> "num",
          neg  |-> IsNegative(s),
          int  |-> DecimalValue(SelectSeq(IntPart(u), IsDigit)),
          frac |-> DropTrailingZeros(SelectSeq(FracPart(u), IsDigit))]

-----------------------------------------------------------------------------
(* parse_lifetable                                                         *)

\* the placeholder u"\xa0" of an empty cell
Nbsp == <<NbspChar>>

IsNewlineOrComma(c) == c \in {"\n", ","}

KeepInCell(c) == ~IsNewlineOrComma(c)

\* re.sub('\n|,', '', x)
Cleaned(x) == SelectSeq(x, KeepInCell)

NotWhitespace(c) == c \notin Whitespace

\* re.sub('\n|\s', '', x)
ColumnName(x) == SelectSeq(x, NotWhitespace)

\* lifetable[1] is the header row, lifetable[4:] are the data rows
HeaderRow == 1

DataFrom == 4

\* a male sub-frame without its last column
MaleColsShort == 7 - 1

\* df.iloc[:, :7] and df.iloc[:, 8:]
MaleCols == 7

FemaleFrom == 8

DataRows(grid) == SubSeq(grid, DataFrom + 1, Len(grid))

\* float(re.sub('\n|,', '', x)) raises
CellRaises(x) == x # Nbsp /\ ~PyFloatOk(Cleaned(x))

\* float(re.sub('\n|,', '', x)) if x != u"\xa0" else None
CellValue(x) == IF x # Nbsp THEN PyFloat(Cleaned(x)) ELSE Missing

\* a conversion that leaves out the separator column
ConvertedCellsNoSeparator(row) == DOMAIN row \ {FemaleFrom}

\* the cells of a data row the list comprehension converts
ConvertedCells(row) == DOMAIN row

\* building the frame raises: a cell that is no number, no header row, or
\* a data row whose width is not the header's
ParseRaises(grid) ==
    \/ \E r \in DOMAIN DataRows(grid) :
         \E c \in ConvertedCells(DataRows(grid)[r]) :
            CellRaises(DataRows(grid)[r][c])
    \/ Len(grid) < HeaderRow + 1
    \/ \E r \in DOMAIN DataRows(grid) :
         Len(DataRows(grid)[r]) # Len(grid[HeaderRow + 1])

Sex == <<"s", "e", "x">>
Year == <<"y", "e", "a", "r">>
ColX == <<"x">>
Age == <<"a", "g", "e">>
Ex == <<"e", "x">>

\* the column names of the frame, by position
Columns(grid) ==
    [i \in DOMAIN grid[HeaderRow + 1] |->
        ColumnName(grid[HeaderRow + 1][i])]

\* the positions the male and the female sub-frame take
MalePositions(grid) ==
    {i \in DOMAIN Columns(grid) : i <= MaleCols}

FemalePositions(grid) ==
    {i \in DOMAIN Columns(grid) : i > FemaleFrom}

\* a sub-frame: the columns at the positions pos, and sex; a row maps a
\* column name to its value (the names within pos are distinct)
SubFrame(grid, pos, sex) ==
    LET cols == Columns(grid)
        data == DataRows(grid)
        at(n) == CHOOSE i \in pos : cols[i] = n
        names == {cols[i] : i \in pos}
    IN  [cols |-> names \cup {Sex},
         rows |-> [r \in DOMAIN data |->
                     [n \in names \cup {Sex} |->
                        IF n = Sex THEN Text(sex)
                        ELSE CellValue(data[r][at(n)])]]]

\* a row over more columns: the new ones are missing
Reindex(row, cols) ==
    [n \in cols |-> IF n \in DOMAIN row THEN row[n] ELSE Missing]

RECURSIVE AllColumns(_)
AllColumns(objs) ==
    IF objs = <<>> THEN {}
    ELSE objs[1].cols \cup AllColumns(Tail(objs))

RECURSIVE AllRows(_, _)
AllRows(objs, cols) ==
    IF objs = <<>> THEN <<>>
    ELSE [i \in DOMAIN objs[1].rows |-> Reindex(objs[1].rows[i], cols)]
         \o AllRows(Tail(objs), cols)

\* pd.concat(frames): the columns are the union of the frames' columns, the
\* rows follow each other in the order of the list
ConcatByName(objs) ==
    [cols |-> AllColumns(objs),
     rows |-> AllRows(objs, AllColumns(objs))]

RenameKey(n, old, new) == IF n = old THEN new ELSE n

\* df.rename(columns={old: new})
Rename(df, old, new) ==
    [cols |-> {RenameKey(n, old, new) : n \in df.cols},
     rows |-> [i \in DOMAIN df.rows |->
                 [n \in {RenameKey(m, old, new) : m \in df.cols} |->
                    IF n = new /\ old \in df.cols THEN df.rows[i][old]
                    ELSE df.rows[i][n]]]]

\* df.assign(year = year)
AssignYearColumn(df, year) ==
    [cols |-> df.cols \cup {Year},
     rows |-> [i \in DOMAIN df.rows |->
                 [n \in df.cols \cup {Year} |->
                    IF n = Year THEN Whole(year) ELSE df.rows[i][n]]]]

HasNoMissing(row) == \A n \in DOMAIN row : row[n] # Missing

\* a dropna that drops only the rows in which every value is missing
DropNaAll(df) ==
    [cols |-> df.cols,
     rows |-> SelectSeq(df.rows,
                        LAMBDA row : \E n \in DOMAIN row : row[n] # Missing)]

\* df.dropna()
DropNa(df) == [cols |-> df.cols, rows |-> SelectSeq(df.rows, HasNoMissing)]

\* parse_lifetable(grid, year), when it does not raise
ParseLifetable(grid, year) ==
    LET df_male   == SubFrame(grid, MalePositions(grid), "M")
        df_female == SubFrame(grid, FemalePositions(grid), "F")
        df        == Rename(ConcatByName(<<df_male, df_female>>), ColX, Age)
    IN  DropNa(AssignYearColumn(df, year))

-----------------------------------------------------------------------------
(* Inputs of the life-table pipeline                                       *)

MaxDataRows == 2

MaxOddPages == 1

\* cell texts
Age0 == <<"0">>
Age1 == <<"1">>
CellQ == <<"0", ".", "1", "4">>
CellL == <<"1", "0", "0", ",", "0", "0", "0">>
CellD == <<"1", "4">>
CellLL == <<"9", "3">>
CellT == <<"\n", "5", "1">>
CellE == <<"4", "6", ".", "5", "0">>
NoNumber == <<"-", "-">>
NanCell == <<"n", "a", "n">>

\* a data row of an SSA table: age and six columns for men, an empty
\* separator cell, age and six columns for women
BaseRow(age) ==
    <<age, CellQ, CellL, CellD, CellLL, CellT, CellE, Nbsp,
      age, CellQ, CellL, CellD, CellLL, CellT, CellE>>

\* an empty row, as the tables have between groups of ages
BlankRow == [c \in DOMAIN BaseRow(Age0) |-> Nbsp]

With(row, c, text) == [row EXCEPT ![c] = text]

\* the header row of an SSA table; the cell over the life expectancy
\* holds no text
GoodHeader ==
    <<<<"x">>, <<"q", " ", "x">>, <<"l", " ", "x">>, <<"d", " ", "x">>,
      <<"L", "\n", "x">>, <<"T", " ", "x">>, Nbsp, Nbsp,
      <<"x">>, <<"q", " ", "x">>, <<"l", " ", "x">>, <<"d", " ", "x">>,
      <<"L", "\n", "x">>, <<"T", " ", "x">>, Nbsp>>

\* a header whose women's columns are not named as the men's
OtherHeader == With(GoodHeader, 10, <<"q", "y">>)

TitleRow == <<<<"M", "a", "l", "e">>, <<"F", "e", "m", "a", "l", "e">>>>

\* a grid: title row, header row, two more rows, then the data rows
Grid(header, rows) == <<TitleRow, header, BlankRow, BlankRow>> \o rows

\* the first table of a page (the page's layout)
LayoutTable == <<TitleRow>>

OddCells == {Nbsp, NoNumber, NanCell}

OddColumns == {1, 4, 7, 8, 9, 15}

RowGallery ==
    {BaseRow(Age0), BaseRow(Age1), BlankRow}
      \cup {With(BaseRow(Age0), c, t) : c \in OddColumns, t \in OddCells}

RowSeqs == UNION {[1..n -> RowGallery] : n \in 0..MaxDataRows}

ParseGrids == {Grid(h, rows) : h \in {GoodHeader, OtherHeader}, rows \in RowSeqs}

GoodGrid == Grid(GoodHeader, <<BaseRow(Age0), BaseRow(Age1)>>)

GoodPage == <<LayoutTable, GoodGrid>>

OddPages ==
    { <<LayoutTable>>,
      <<LayoutTable, Grid(GoodHeader, <<BaseRow(Age0), BlankRow, BaseRow(Age1)>>)>>,
      <<LayoutTable, Grid(GoodHeader, <<With(BaseRow(Age0), 4, Nbsp), BaseRow(Age1)>>)>>,
      <<LayoutTable, Grid(GoodHeader, <<With(BaseRow(Age0), 8, NoNumber), BaseRow(Age1)>>)>> }

\* a range that takes its stop value too
YearsInclusive ==
    [i \in 1..21 |-> 1900 + (i - 1) * 10]

\* range(1900, 2100, 10)
YearStart == 1900

YearStop == 2100

YearStep == 10

Years ==
    [i \in 1..((YearStop - YearStart + YearStep - 1) \div YearStep) |->
        YearStart + (i - 1) * YearStep]

YearSet == Range(Years)

RECURSIVE YearsUpTo(_)
\* the sets of at most k years
YearsUpTo(k) ==
    IF k = 0 THEN {{}}
    ELSE YearsUpTo(k - 1)
           \cup {T \cup {y} : T \in YearsUpTo(k - 1), y \in YearSet}

\* the sites: the pages of at most MaxOddPages years are odd ones
Sites == UNION {[T -> OddPages] : T \in YearsUpTo(MaxOddPages)}

\* the page the site serves for a year
Web(year) == IF year \in DOMAIN site THEN site[year] ELSE GoodPage

-----------------------------------------------------------------------------
(* scrape_lifetable, get_lifetable, get_lifetables                         *)

\* tables[1]
TableIndex == 1

LifetablesCsv == "lifetables.csv"

\* an exception ends the run
LifeRaise ==
    /\ lpc' = "aborted"

\* requests.get raises (the network fails)
GetRaises ==
    /\ lpc = "scrape"
    /\ yearIdx <= Len(Years)
    /\ requested' = Append(requested, Years[yearIdx])
    /\ LifeRaise
    /\ UNCHANGED <<site, yearIdx, lifetable, frames, lifetables, fs>>
    /\ UNCHANGED lifeIdleVars

\* scrape_lifetable(year): get the page, take its second table, extract it
Scrape ==
    /\ lpc = "scrape"
    /\ yearIdx <= Len(Years)
    /\ requested' = Append(requested, Years[yearIdx])
    /\ Len(Web(Years[yearIdx])) > TableIndex
    /\ lifetable' = Web(Years[yearIdx])[TableIndex + 1]
    /\ lpc' = "parse"
    /\ UNCHANGED <<site, yearIdx, frames, lifetables, fs>>
    /\ UNCHANGED lifeIdleVars

\* tables[1] raises IndexError: the page has fewer than two tables
ScrapeRaises ==
    /\ lpc = "scrape"
    /\ yearIdx <= Len(Years)
    /\ requested' = Append(requested, Years[yearIdx])
    /\ Len(Web(Years[yearIdx])) <= TableIndex
    /\ LifeRaise
    /\ UNCHANGED <<site, yearIdx, lifetable, frames, lifetables, fs>>
    /\ UNCHANGED lifeIdleVars

\* parse_lifetable(lifetable, year); the comprehension takes the next year
Parse ==
    /\ lpc = "parse"
    /\ ~ParseRaises(lifetable)
    /\ frames' = Append(frames, ParseLifetable(lifetable, Years[yearIdx]))
    /\ yearIdx' = yearIdx + 1
    /\ lpc' = "scrape"
    /\ UNCHANGED <<site, requested, lifetable, lifetables, fs>>
    /\ UNCHANGED lifeIdleVars

ParseFails ==
    /\ lpc = "parse"
    /\ ParseRaises(lifetable)
    /\ LifeRaise
    /\ UNCHANGED <<site, yearIdx, requested, lifetable, frames, lifetables, fs>>
    /\ UNCHANGED lifeIdleVars

\* lifetables = pd.concat([...]); lifetables.rename(columns={"": "ex"})
ConcatLifetables ==
    /\ lpc = "scrape"
    /\ yearIdx > Len(Years)
    /\ lifetables' = Rename(ConcatByName(frames), <<>>, Ex)
    /\ lpc' = "write"
    /\ UNCHANGED <<site, yearIdx, requested, lifetable, frames, fs>>
    /\ UNCHANGED lifeIdleVars

\* lifetables.to_csv('lifetables.csv', index=False)
WriteLifetables ==
    /\ lpc = "write"
    /\ fs' = Put(fs, LifetablesCsv, lifetables)
    /\ lpc' = "done"
    /\ UNCHANGED <<site, yearIdx, requested, lifetable, frames, lifetables>>
    /\ UNCHANGED lifeIdleVars

-----------------------------------------------------------------------------
(* Specifications                                                          *)

\* the life-table cell has not run
LifeIdle ==
    /\ lpc = "idle"
    /\ site = <<>>
    /\ yearIdx = 1
    /\ requested = <<>>
    /\ lifetable = <<>>
    /\ frames = <<>>
    /\ lifetables = <<>>

\* the name-counts cells have run, on an archive of one file
NamesDone ==
    /\ pc = "done"
    /\ failedAt = "none"
    /\ executed = SubSeq(Statements, 1, Len(Statements) - 1)
    /\ archive = [n \in {Yob2000} |-> <<Mary>>]
    /\ seen = {[name |-> Yob2000, lines |-> <<Mary>>]}
    /\ babynames = AssignYear(ReadCsv(<<Mary>>), PyIntVal(YearField(Yob2000)))
    /\ fs = Put(<<>>, NamesCsvGz, ToCsv(babynames))

LifeInit ==
    /\ NamesDone
    /\ lpc = "scrape"
    /\ site \in Sites
    /\ yearIdx = 1
    /\ requested = <<>>
    /\ lifetable = <<>>
    /\ frames = <<>>
    /\ lifetables = <<>>

\* the first year's page has been scraped
ParseInit ==
    /\ NamesDone
    /\ lpc = "parse"
    /\ lifetable \in ParseGrids
    /\ site = [y \in {Years[1]} |-> <<LayoutTable, lifetable>>]
    /\ yearIdx = 1
    /\ requested = <<Years[1]>>
    /\ frames = <<>>
    /\ lifetables = <<>>

-----------------------------------------------------------------------------
(* Properties of the name-counts pipeline (checked under Spec)             *)

Ran(statement) == statement \in Range(executed)

Ended == pc \in {"done", "aborted"}

\* the rows of names.csv.gz, none when the file does not exist
CsvRows == IF Exists(NamesCsvGz) THEN fs[NamesCsvGz] ELSE <<>>

\* the characters of file.name[3:7] are four decimal digits
FourDigitYear(name) ==
    /\ Len(YearField(name)) = 4
    /\ \A i \in DOMAIN YearField(name) : YearField(name)[i] \in Digits

\* the files iterdir() yielded whose name ends in 'txt'
TxtFiles == {file \in seen : IsTxt(file.name)}

\* C1: in a run in which every step succeeds, names.csv.gz is written
\* before names.zip and data-us are removed, and at the end names.csv.gz
\* exists (holding the combined frame) while names.zip and data-us do not.
C1_WrittenBeforeCleanup ==
    /\ (Ran("download") /\ ~Exists(NamesZip)) => Ran("write")
    /\ (Ran("extract") /\ ~Exists(DataUs)) => Ran("write")
    /\ Ran("write") /\ ~Ended => Exists(NamesCsvGz)
    /\ pc = "done" =>
          /\ Exists(NamesCsvGz)
          /\ fs[NamesCsvGz] = ToCsv(babynames)
          /\ ~Exists(NamesZip)
          /\ ~Exists(DataUs)

C1_Witness ==
    /\ pc = "done"
    /\ Len(CsvRows) >= 2
    /\ ~Exists(NamesZip)
    /\ ~Exists(DataUs)

C3_RowsAsInFile ==
    Ran("write") =>
        \A file \in TxtFiles :
            FourDigitYear(file.name) =>
                \A i \in DOMAIN file.lines :
                    [name   |-> file.lines[i][1],
                     sex    |-> file.lines[i][2],
                     births |-> file.lines[i][3],
                     year   |-> DecimalValue(YearField(file.name))]
                        \in Range(CsvRows)

\* the frame the loop builds for a file
FrameOf(file) ==
    AssignYear(ReadCsv(file.lines), PyIntVal(YearField(file.name)))

BagOfSeq(rows) ==
    [row \in Range(rows) |-> Cardinality({i \in DOMAIN rows : rows[i] = row})]

RECURSIVE BagOfFiles(_)
\* the rows of the files' frames, each as often as it occurs
BagOfFiles(files) ==
    IF files = {} THEN EmptyBag
    ELSE LET file == CHOOSE f \in files : TRUE
         IN  BagOfSeq(ToCsv(FrameOf(file))) (+) BagOfFiles(files \ {file})

RECURSIVE LinesOfFiles(_)
LinesOfFiles(files) ==
    IF files = {} THEN 0
    ELSE LET file == CHOOSE f \in files : TRUE
         IN  Len(file.lines) + LinesOfFiles(files \ {file})

\* C4: whatever the order in which iterdir() yields the files, the rows
\* written are, as a multiset, the rows of the frames of the files whose
\* name ends in 'txt': their number is the sum of the files' line counts,
\* and the other files contribute nothing.
C4_SameMultiset ==
    Ran("write") =>
        /\ BagOfSeq(CsvRows) = BagOfFiles(TxtFiles)
        /\ Len(CsvRows) = LinesOfFiles(TxtFiles)

C4_Witness ==
    /\ Ran("write")
    /\ Cardinality(TxtFiles) = 2
    /\ Cardinality(Range(CsvRows)) < Len(CsvRows)

\* C5 as claimed: once the loop has taken a file whose name ends in 'txt'
\* and whose characters 3..6 are not four decimal digits, the run has
\* failed; no frame is built for the file.
C5_MalformedNameFails ==
    \A file \in TxtFiles :
        ~FourDigitYear(file.name) => (pc = "aborted" /\ failedAt = "read")

CsvUnchanged ==
    /\ Exists(NamesCsvGz)' <=> Exists(NamesCsvGz)
    /\ CsvRows' = CsvRows

\* C6: no step of a run that has not come to the write creates or changes
\* names.csv.gz; a run that fails while reading a file therefore ends with
\* names.csv.gz as it was, however many files were read before.
C6_NoPartialOutput ==
    [][(~Ran("write")' /\ failedAt' # "write") => CsvUnchanged]_vars

C6_Witness ==
    /\ pc = "aborted"
    /\ failedAt = "read"
    /\ Len(babynames) >= 1
    /\ ~Exists(NamesCsvGz)

-----------------------------------------------------------------------------
(* Properties of the life-table pipeline (C7 under SpecParse, C8 to C10    *)
(* under SpecLife)                                                         *)

\* the grid rows with index 4 and above
GridDataRows(grid) == SubSeq(grid, 5, Len(grid))

\* the cells of a row's male record (columns 0..6) and of its female
\* record (columns 8 onward)
MaleCells(row) == SubSeq(row, 1, 7)

FemaleCells(row) == SubSeq(row, 9, Len(row))

HasPlaceholder(cells) == \E i \in DOMAIN cells : cells[i] = Nbsp

IsNumberOrPlaceholder(x) == x = Nbsp \/ PyFloatOk(Cleaned(x))

\* a number other than nan
IsFiniteOrPlaceholder(x) ==
    x = Nbsp \/ (PyFloatOk(Cleaned(x)) /\ Unsigned(Cleaned(x)) \notin NanTexts)

\* the texts of the cells of the data rows
DataCells(grid) ==
    UNION {Range(GridDataRows(grid)[r]) : r \in DOMAIN GridDataRows(grid)}

AllNumberOrPlaceholder(grid) ==
    \A x \in DataCells(grid) : IsNumberOrPlaceholder(x)

AllFiniteOrPlaceholder(grid) ==
    \A x \in DataCells(grid) : IsFiniteOrPlaceholder(x)

\* the records of one sex with no placeholder among their own cells, in
\* the order of the rows
RecordsOf(cellRows, sex, year) ==
    LET IsComplete(cells) == ~HasPlaceholder(cells)
        kept == SelectSeq(cellRows, IsComplete)
    IN  [k \in DOMAIN kept |->
            [sex |-> sex, year |-> year,
             values |-> [i \in DOMAIN kept[k] |-> CellValue(kept[k][i])]]]

ExpectedRecords(grid, year) ==
    RecordsOf([r \in DOMAIN GridDataRows(grid) |->
                  MaleCells(GridDataRows(grid)[r])], "M", year)
        \o RecordsOf([r \in DOMAIN GridDataRows(grid) |->
                        FemaleCells(GridDataRows(grid)[r])], "F", year)

\* the name of the frame's column for header cell i
FrameColumn(grid, i) ==
    LET n == ColumnName(grid[2][i]) IN IF n = ColX THEN Age ELSE n

\* a returned row as a record: its values in the order of header cells 0..6
AsRecord(grid, row) ==
    [sex |-> row[Sex].s, year |-> row[Year].n,
     values |-> [i \in 1..7 |->
                   IF FrameColumn(grid, i) \in DOMAIN row
                   THEN row[FrameColumn(grid, i)] ELSE Missing]]

ReturnedRecords(grid, df) ==
    [k \in DOMAIN df.rows |-> AsRecord(grid, df.rows[k])]

\* header cells 8..14 name their columns as header cells 0..6 do, with
\* seven different names
SameHalves(grid) ==
    /\ Len(grid[2]) = 15
    /\ \A i \in 1..7 : ColumnName(grid[2][i]) = ColumnName(grid[2][i + 8])
    /\ \A i, j \in 1..7 :
          i # j => ColumnName(grid[2][i]) # ColumnName(grid[2][j])

\* parse_lifetable has returned for the first year's grid
Parsed == lpc = "scrape" /\ Len(frames) = 1

\* C7 as claimed: on a grid whose data cells are each a parseable number
\* or the placeholder, parse_lifetable returns exactly the male and female
\* records that have no placeholder among their own cells.
C7_ExactlyCompleteRecords ==
    AllNumberOrPlaceholder(lifetable) =>
        /\ lpc # "aborted"
        /\ Parsed =>
              ReturnedRecords(lifetable, frames[1])
                  = ExpectedRecords(lifetable, Years[1])

\* C7 as amended: on a grid whose header names columns 8..14 as columns
\* 0..6 and whose data cells are each a number other than nan or the
\* placeholder, parse_lifetable returns exactly the male and female
\* records that have no placeholder among their own cells; every returned
\* row is non-null in every column.
C7_ExactlyCompleteRecordsOfPairedHeader ==
    (AllFiniteOrPlaceholder(lifetable) /\ SameHalves(lifetable)) =>
        /\ lpc # "aborted"
        /\ Parsed =>
              /\ ReturnedRecords(lifetable, frames[1])
                    = ExpectedRecords(lifetable, Years[1])
              /\ \A k \in DOMAIN frames[1].rows :
                    \A n \in DOMAIN frames[1].rows[k] :
                        frames[1].rows[k][n] # Missing

C7_Witness ==
    /\ Parsed
    /\ AllFiniteOrPlaceholder(lifetable)
    /\ SameHalves(lifetable)
    /\ Len(GridDataRows(lifetable)) = 2
    /\ Len(frames[1].rows) = 3

\* a well-formed page: a second table with a paired header that names its
\* first column x, data rows of the header's width whose cells are numbers
\* or the placeholder, and in every data row the same age for men and
\* women and a placeholder among the men's cells exactly when there is one
\* among the women's
WellFormed(page) ==
    /\ Len(page) >= 2
    /\ Len(page[2]) >= 2
    /\ SameHalves(page[2])
    /\ ColumnName(page[2][2][1]) = ColX
    /\ AllFiniteOrPlaceholder(page[2])
    /\ \A r \in DOMAIN GridDataRows(page[2]) :
          LET row == GridDataRows(page[2])[r] IN
          /\ Len(row) = 15
          /\ CellValue(row[1]) = CellValue(row[9])
          /\ HasPlaceholder(MaleCells(row)) <=> HasPlaceholder(FemaleCells(row))

RowsFor(rows, year, sex) ==
    SelectSeq(rows, LAMBDA row : row[Year] = Whole(year) /\ row[Sex] = Text(sex))

AgesOf(rows) == {rows[k][Age] : k \in DOMAIN rows}

SexesAgree(rows, year) ==
    /\ Len(RowsFor(rows, year, "M")) = Len(RowsFor(rows, year, "F"))
    /\ AgesOf(RowsFor(rows, year, "M")) = AgesOf(RowsFor(rows, year, "F"))

StrideYears == [i \in 1..20 |-> 1900 + 10 * (i - 1)]

YearsAscend(rows) ==
    \A j, k \in DOMAIN rows : j < k => rows[j][Year].n <= rows[k][Year].n

YearsInStride(rows) ==
    \A k \in DOMAIN rows : rows[k][Year].n \in Range(StrideYears)

\* C9: the years are fetched one after another in ascending order, each
\* once; the parse of a year is done before the next year is fetched; a
\* run that comes to the end has fetched the 20 years; every row carries a
\* year of the stride, and the rows of an earlier year come before those
\* of a later one.
C9_YearsInOrder ==
    /\ Len(requested) <= 20
    /\ requested = SubSeq(StrideYears, 1, Len(requested))
    /\ lpc = "scrape" => Len(frames) = Len(requested)
    /\ lpc = "parse" => Len(frames) + 1 = Len(requested)
    /\ \A i \in DOMAIN frames :
          \A k \in DOMAIN frames[i].rows :
              frames[i].rows[k][Year].n = requested[i]
    /\ lpc \in {"write", "done"} =>
          /\ requested = StrideYears
          /\ YearsInStride(lifetables.rows)
          /\ YearsAscend(lifetables.rows)
    /\ lpc = "done" =>
          /\ Exists(LifetablesCsv)
          /\ fs[LifetablesCsv] = lifetables

C9_Witness ==
    /\ lpc = "done"
    /\ Len(requested) = 20
    /\ Len(fs[LifetablesCsv].rows) >= 40

\* the page has fewer than two tables, or a cell of a data row of its
\* second table is neither the placeholder nor a number
Faulty(page) ==
    \/ Len(page) < 2
    \/ ~AllNumberOrPlaceholder(page[2])

\* C10: once a faulty page has been fetched, no later year is fetched, no
\* frame is built for the year, the run aborts and lifetables.csv is not
\* written, also when earlier years were parsed.
C10_FaultAborts ==
    \A i \in DOMAIN requested :
        Faulty(Web(requested[i])) =>
            /\ i = Len(requested)
            /\ Len(frames) < i
            /\ lpc \in {"parse", "aborted"}
            /\ ~Exists(LifetablesCsv)

C10_Witness ==
    /\ lpc = "aborted"
    /\ Len(frames) >= 2
    /\ Len(Web(requested[Len(requested)])) >= 2
    /\ Faulty(Web(requested[Len(requested)]))

NamesNext ==
    \/ Download
    \/ DownloadFails
    \/ ExtractAll
    \/ InitList
    \/ SkipFile
    \/ ReadCsvRaises
    \/ IntRaises
    \/ ReadFile
    \/ LoopEnds
    \/ ConcatFrames
    \/ ConcatRaises
    \/ WriteCsv
    \/ WriteRaises
    \/ RemoveZip
    \/ RemoveTree

LifeNext ==
    \/ GetRaises
    \/ Scrape
    \/ ScrapeRaises
    \/ Parse
    \/ ParseFails
    \/ ConcatLifetables
    \/ WriteLifetables

ParseNext ==
    \/ Parse
    \/ ParseFails

Init == NamesInit /\ LifeIdle

\* the name-counts pipeline
Spec == Init /\ [][NamesNext]_vars

\* the life-table pipeline
SpecLife == LifeInit /\ [][LifeNext]_vars

\* parse_lifetable on the first year's grid
SpecParse == ParseInit /\ [][ParseNext]_vars

====
